---------------------------- MODULE Spec2Model ----------------------------
(***************************************************************************)
(* Model of the native tensor operators of the DJL PyTorch engine:         *)
(*   ai_djl_pytorch_jni_PyTorchLibrary_tensor_pointwise.cc                 *)
(*   ai_djl_pytorch_jni_PyTorchLibrary_functional.cc                       *)
(*                                                                         *)
(* Every native method takes a handle, reads the tensor behind it, calls   *)
(* tensor-library operators and wraps the result in a fresh handle; only   *)
(* torchNeg with inplace = true writes through the handle it was given.    *)
(* The state is the table of live handles and the record of the last call. *)
(*                                                                         *)
(* Element values are exact: a number is the rational n/d in lowest terms, *)
(* d = 0 standing for the IEEE specials (1/0 = +inf, -1/0 = -inf,          *)
(* 0/0 = NaN).  Functions with no rational result (exp, log, sin, ...) are *)
(* kept as uninterpreted applications in the field f.  Rounding to the     *)
(* float width and the sign of zero are not represented.                   *)
(***************************************************************************)
EXTENDS Integers, Sequences, FiniteSets, TLC

VARIABLES heap, last

vars == <<heap, last>>

(* ------------------------------ bounds -------------------------------- *)

\* Number of handles that can be live: the initial tensor and the results.
MaxHandles == 2

(* --------------------------- exact numbers ---------------------------- *)

AbsI(i) == IF i < 0 THEN -i ELSE i

SignI(i) == IF i < 0 THEN -1 ELSE IF i = 0 THEN 0 ELSE 1

RECURSIVE Gcd(_, _)
Gcd(a, b) == IF b = 0 THEN a ELSE Gcd(b, a % b)

\* The value n/d (d >= 0) in lowest terms; d = 0 gives +inf, -inf or NaN.
Q(n, d) ==
    IF d = 0 THEN [n |-> SignI(n), d |-> 0, f |-> <<>>]
    ELSE LET g == Gcd(AbsI(n), d)
         IN  [n |-> n \div g, d |-> d \div g, f |-> <<>>]

\* n/d for a denominator of either sign.
QS(n, d) == IF d < 0 THEN Q(-n, -d) ELSE Q(n, d)

Int2Q(i) == Q(i, 1)

NaN == Q(0, 0)
PosInf == Q(1, 0)
NegInf == Q(-1, 0)

IsExact(v) == v.f = <<>>
IsFinite(v) == IsExact(v) /\ v.d > 0
IsNaN(v) == IsExact(v) /\ v.d = 0 /\ v.n = 0
IsInf(v) == IsExact(v) /\ v.d = 0 /\ v.n # 0
IsZero(v) == IsFinite(v) /\ v.n = 0

\* An uninterpreted application op(v; s; ctx), appended to v's own.
Sym(op, v, s, ctx) ==
    [n |-> v.n, d |-> v.d, f |-> Append(v.f, [op |-> op, s |-> s, ctx |-> ctx])]

\* IEEE negation; negating twice gives the value back.
NegV(v) ==
    IF IsExact(v) THEN [n |-> -v.n, d |-> v.d, f |-> <<>>]
    ELSE IF v.f[Len(v.f)].op = "neg"
         THEN [n |-> v.n, d |-> v.d, f |-> SubSeq(v.f, 1, Len(v.f) - 1)]
    ELSE Sym("neg", v, <<>>, <<>>)

\* IEEE addition of two exact values.
AddQ(a, b) ==
    IF a.d > 0 /\ b.d > 0 THEN Q(a.n * b.d + b.n * a.d, a.d * b.d)
    ELSE IF IsNaN(a) \/ IsNaN(b) THEN NaN
    ELSE IF a.d = 0 /\ b.d = 0 THEN (IF a.n = b.n THEN a ELSE NaN)
    ELSE IF a.d = 0 THEN a ELSE b

\* IEEE multiplication of two exact values.
MulQ(a, b) ==
    IF a.d > 0 /\ b.d > 0 THEN Q(a.n * b.n, a.d * b.d)
    ELSE IF IsNaN(a) \/ IsNaN(b) \/ a.n = 0 \/ b.n = 0 THEN NaN
    ELSE Q(SignI(a.n) * SignI(b.n), 0)

\* IEEE division of two exact values: x/0 is +-inf, 0/0 and inf/inf are NaN.
DivQ(a, b) ==
    IF a.d > 0 /\ b.d > 0 THEN QS(a.n * b.d, a.d * b.n)
    ELSE IF IsNaN(a) \/ IsNaN(b) THEN NaN
    ELSE IF a.d = 0 /\ b.d = 0 THEN NaN
    ELSE IF a.d = 0 THEN Q(a.n * (IF b.n < 0 THEN -1 ELSE 1), 0)
    ELSE Q(0, 1)

SubV(v, s) ==
    IF IsExact(v) /\ IsExact(s) THEN AddQ(v, NegV(s))
    ELSE Sym("sub", v, <<>>, <<s>>)

DivV(v, s) ==
    IF IsExact(v) /\ IsExact(s) THEN DivQ(v, s)
    ELSE Sym("div", v, <<>>, <<s>>)

FloorQ(v) == Q(v.n \div v.d, 1)
CeilQ(v) == Q(-((-v.n) \div v.d), 1)
TruncQ(v) == IF v.n < 0 THEN CeilQ(v) ELSE FloorQ(v)

\* Round half to even, as the library's round does.
RoundQ(v) ==
    LET fl   == v.n \div v.d
        twor == 2 * (v.n - fl * v.d)
    IN  IF twor < v.d THEN Q(fl, 1)
        ELSE IF twor > v.d THEN Q(fl + 1, 1)
        ELSE IF fl % 2 = 0 THEN Q(fl, 1) ELSE Q(fl + 1, 1)

\* The unary functions with an exact result.
ExactUnary == {"abs", "floor", "ceil", "round", "trunc"}

UnaryV(op, v) ==
    IF op \in ExactUnary /\ IsExact(v) THEN
        IF v.d = 0 THEN (IF op = "abs" THEN Q(AbsI(v.n), 0) ELSE v)
        ELSE CASE op = "abs"   -> Q(AbsI(v.n), v.d)
               [] op = "floor" -> FloorQ(v)
               [] op = "ceil"  -> CeilQ(v)
               [] op = "round" -> RoundQ(v)
               [] op = "trunc" -> TruncQ(v)
    ELSE Sym(op, v, <<>>, <<>>)

\* Truthiness of an element: nonzero (NaN and the infinities are nonzero).
Truthy(v) == ~IsZero(v)

(* ------------------------------ tensors ------------------------------- *)

\* A tensor: its sizes, its element type and its elements in row-major order.
Tensor(shape, dtype, data) == [shape |-> shape, dtype |-> dtype, data |-> data]

RECURSIVE Prod(_)
Prod(s) == IF s = <<>> THEN 1 ELSE Head(s) * Prod(Tail(s))

Dim(t) == Len(t.shape)

\* Row-major stride of axis k (1-based) of a shape.
Stride(shape, k) == Prod(SubSeq(shape, k + 1, Len(shape)))

\* Coordinates (0-based, one per axis) of the element at 0-based offset i.
Unravel(i, shape) ==
    [k \in 1..Len(shape) |-> (i \div Stride(shape, k)) % shape[k]]

RECURSIVE RavelFrom(_, _, _)
RavelFrom(idx, shape, k) ==
    IF k > Len(shape) THEN 0
    ELSE idx[k] * Stride(shape, k) + RavelFrom(idx, shape, k + 1)

\* 0-based offset of the element at coordinates idx.
Ravel(idx, shape) == RavelFrom(idx, shape, 1)

At(t, idx) == t.data[Ravel(idx, t.shape) + 1]

\* All coordinate tuples of a shape.
Coords(shape) == {Unravel(i - 1, shape) : i \in 1..Prod(shape)}

\* The tensor of the given shape whose element at idx is f[idx].
Build(shape, dtype, f) ==
    Tensor(shape, dtype, [i \in 1..Prod(shape) |-> f[Unravel(i - 1, shape)]])

\* The values a tensor holds.
Values(t) == {t.data[i] : i \in 1..Len(t.data)}

\* The tensor of t's shape whose elements are f of t's.
MapT(t, dtype, f) ==
    Tensor(t.shape, dtype, [i \in 1..Len(t.data) |-> f[t.data[i]]])

InsertAt(s, k, x) == SubSeq(s, 1, k) \o <<x>> \o SubSeq(s, k + 1, Len(s))

RemoveAt(s, k) == SubSeq(s, 1, k - 1) \o SubSeq(s, k + 1, Len(s))

\* Tensor::unsqueeze(axis): a size-1 axis inserted at 0-based position axis.
unsqueeze(t, axis) == Tensor(InsertAt(t.shape, axis, 1), t.dtype, t.data)

\* Tensor::squeeze(axis): the axis removed when its size is 1, kept otherwise.
squeeze(t, axis) ==
    IF t.shape[axis + 1] = 1
    THEN Tensor(RemoveAt(t.shape, axis + 1), t.dtype, t.data)
    ELSE t

\* Tensor::permute accepts exactly one entry per axis, each axis once.
permuteOk(t, perm) ==
    /\ Len(perm) = Dim(t)
    /\ \A a \in 0..(Dim(t) - 1) : \E k \in 1..Len(perm) : perm[k] = a

\* Tensor::permute(perm): axis k of the result is axis perm[k] of t.
permute(t, perm) ==
    LET newShape == [k \in 1..Len(perm) |-> t.shape[perm[k] + 1]]
        Src(idx) == [a \in 1..Dim(t) |->
                        idx[CHOOSE k \in 1..Len(perm) : perm[k] + 1 = a]]
    IN  Build(newShape, t.dtype, [idx \in Coords(newShape) |-> At(t, Src(idx))])

(* ---------------------------- element types --------------------------- *)

IsFloating(dt) == dt = "float32"

\* Result type of an operator that computes in floating point.
ToFloat(dt) == "float32"

(* ----------------------------- broadcasting --------------------------- *)

MaxI(a, b) == IF a > b THEN a ELSE b

\* Size of axis k of shape s once s is right-aligned to rank r.
Aligned(s, r, k) == IF k <= r - Len(s) THEN 1 ELSE s[k - (r - Len(s))]

\* Two shapes broadcast when, right-aligned, their sizes agree or one is 1.
broadcastOk(s1, s2) ==
    LET r == MaxI(Len(s1), Len(s2))
    IN  \A k \in 1..r :
            \/ Aligned(s1, r, k) = Aligned(s2, r, k)
            \/ Aligned(s1, r, k) = 1
            \/ Aligned(s2, r, k) = 1

broadcastShape(s1, s2) ==
    LET r == MaxI(Len(s1), Len(s2))
    IN  [k \in 1..r |->
            IF Aligned(s1, r, k) = 1 THEN Aligned(s2, r, k)
            ELSE Aligned(s1, r, k)]

\* The element of t that the broadcast coordinates idx (of rank r) read.
BAt(t, idx, r) ==
    At(t, [k \in 1..Dim(t) |->
              IF t.shape[k] = 1 THEN 0 ELSE idx[k + (r - Dim(t))]])

\* The binary operators applied elementwise.
BinaryV(op, x, y) == IF op = "sub" THEN SubV(x, y) ELSE DivV(x, y)

\* Elementwise op over two broadcast tensors.
Broadcast2(a, b, dtype, op) ==
    LET shp == broadcastShape(a.shape, b.shape)
        r   == Len(shp)
    IN  Build(shp, dtype,
              [idx \in Coords(shp) |->
                  BinaryV(op, BAt(a, idx, r), BAt(b, idx, r))])

\* torch::from_blob(v.data(), shape): a float tensor over the vector's floats.
from_blob(v, shape) == Tensor(shape, "float32", v)

\* Tensor::reshape(shape) of a contiguous tensor: the same elements in order.
reshape(t, shape) == Tensor(shape, t.dtype, t.data)

(* --------------------------- library operators ------------------------ *)

\* What a call yields: a tensor, or the check of the library that rejected it.
NoTensor == Tensor(<<>>, "none", <<>>)

Ok(t) == [err |-> "none", t |-> t]

Fail(e) == [err |-> e, t |-> NoTensor]

\* A jdouble scalar operand: wrapped as a rank-0 floating tensor, so an
\* integer or boolean tensor is promoted to the default floating type.
ScalarResultType(dt) == ToFloat(dt)

\* Tensor::sub(Scalar).  Subtraction rejects boolean tensors.
sub_scalar(t, s) ==
    IF t.dtype = "bool" THEN Fail("bool_sub")
    ELSE Ok(MapT(t, ScalarResultType(t.dtype),
            [v \in Values(t) |-> SubV(v, s)]))

\* Variant of div_scalar: an integer tensor is divided as integers, a zero
\* divisor being rejected.
div_scalar_integer(t, s) ==
    IF t.dtype = "int32" /\ IsZero(s) THEN Fail("div_by_zero")
    ELSE IF t.dtype = "int32"
         THEN Ok(MapT(t, t.dtype,
            [v \in Values(t) |-> UnaryV("trunc", DivV(v, s))]))
    ELSE Ok(MapT(t, ScalarResultType(t.dtype),
            [v \in Values(t) |-> DivV(v, s)]))

\* Tensor::div(Scalar): true division in floating point; a zero divisor
\* gives the IEEE quotient, no check is made.
div_scalar(t, s) ==
    Ok(MapT(t, ScalarResultType(t.dtype),
            [v \in Values(t) |-> DivV(v, s)]))

\* Tensor::sub(Tensor), broadcasting.
sub_tensor(a, b) ==
    IF a.dtype = "bool" \/ b.dtype = "bool" THEN Fail("bool_sub")
    ELSE IF ~broadcastOk(a.shape, b.shape) THEN Fail("broadcast")
    ELSE Ok(Broadcast2(a, b,
                       IF IsFloating(a.dtype) \/ IsFloating(b.dtype)
                       THEN "float32" ELSE a.dtype,
                       "sub"))

\* Variant of div_tensor: a zero in the divisor is rejected.
div_tensor_checked(a, b) ==
    IF \E i \in 1..Len(b.data) : IsZero(b.data[i]) THEN Fail("div_by_zero")
    ELSE IF ~broadcastOk(a.shape, b.shape) THEN Fail("broadcast")
    ELSE Ok(Broadcast2(a, b, "float32", "div"))

\* Tensor::div(Tensor), broadcasting, true division.
div_tensor(a, b) ==
    IF ~broadcastOk(a.shape, b.shape) THEN Fail("broadcast")
    ELSE Ok(Broadcast2(a, b, "float32", "div"))

\* abs, floor, ceil, round, trunc keep the element type; the others compute
\* in floating point.
unary(op, t) ==
    Ok(MapT(t,
            IF op \in ExactUnary THEN t.dtype ELSE ToFloat(t.dtype),
            [v \in Values(t) |-> UnaryV(op, v)]))

\* Tensor::neg(): a new tensor.  Negation rejects boolean tensors.
neg(t) ==
    IF t.dtype = "bool" THEN Fail("bool_neg")
    ELSE Ok(MapT(t, t.dtype,
            [v \in Values(t) |-> NegV(v)]))

BoolV(b) == IF b THEN Int2Q(1) ELSE Int2Q(0)

\* Tensor::all(): rank-0 boolean, true iff every element is nonzero.
all(t) ==
    Tensor(<<>>, "bool",
           <<BoolV(\A i \in 1..Len(t.data) : Truthy(t.data[i]))>>)

\* Tensor::any(): rank-0 boolean, true iff some element is nonzero.
any(t) ==
    Tensor(<<>>, "bool",
           <<BoolV(\E i \in 1..Len(t.data) : Truthy(t.data[i]))>>)

\* Tensor::logical_not(): boolean, true where the element is zero.
logical_not(t) == MapT(t, "bool", [v \in Values(t) |-> BoolV(~Truthy(v))])

\* A dimension argument is valid in [-rank, rank - 1] (rank 0 counts as 1).
WrapDim(d, r) == IF d < 0 THEN d + MaxI(r, 1) ELSE d

dimOk(d, r) == WrapDim(d, r) >= 0 /\ WrapDim(d, r) < MaxI(r, 1)

\* Tensor::softmax(dim, dtype): the input is cast to dtype, which must be
\* floating; element i becomes exp(x_i) / sum of exp over its slice along dim.
softmax(t, dim, dtype) ==
    IF ~dimOk(dim, Dim(t)) THEN Fail("dim_range")
    ELSE IF ~IsFloating(dtype) THEN Fail("dtype")
    ELSE LET ax == WrapDim(dim, Dim(t)) + 1
             Slice(idx) ==
                 IF Dim(t) = 0 THEN <<At(t, idx)>>
                 ELSE [j \in 1..t.shape[ax] |->
                          At(t, [idx EXCEPT ![ax] = j - 1])]
         IN  Ok(Build(t.shape, dtype,
                      [idx \in Coords(t.shape) |->
                          Sym("softmax", At(t, idx), <<>>, Slice(idx))]))

\* area_pixel_compute_scale: input/output ratio of the coordinate mapping.
PixelScale(inSz, outSz, align) ==
    IF align THEN (IF outSz > 1 THEN Q(inSz - 1, outSz - 1) ELSE Q(0, 1))
    ELSE Q(inSz, outSz)

\* area_pixel_compute_source_index: source coordinate of output pixel dst.
SourceIndex(scale, dst, align) ==
    IF align THEN MulQ(scale, Int2Q(dst))
    ELSE LET src == AddQ(MulQ(scale, Q(2 * dst + 1, 2)), Q(-1, 2))
         IN  IF src.n < 0 THEN Q(0, 1) ELSE src

\* Weighted mean of the four neighbours of a source coordinate.
Bilerp(v00, v01, v10, v11, lh, lw) ==
    LET one == Int2Q(1)
        h0  == AddQ(one, NegV(lh))
        w0  == AddQ(one, NegV(lw))
    IN  IF IsFinite(v00) /\ IsFinite(v01) /\ IsFinite(v10) /\ IsFinite(v11)
        THEN AddQ(MulQ(h0, AddQ(MulQ(w0, v00), MulQ(lw, v01))),
                  MulQ(lh, AddQ(MulQ(w0, v10), MulQ(lw, v11))))
        ELSE Sym("bilinear", v00, <<lh.n, lh.d, lw.n, lw.d>>, <<v01, v10, v11>>)

\* Variant of upsample_bilinear2d: the sizes are not checked to be positive.
upsample_bilinear2d_unchecked(t, size, align) ==
    IF Len(size) # 2 THEN Fail("output_size_len")
    ELSE IF Dim(t) # 4 THEN Fail("input_rank")
    ELSE IF ~IsFloating(t.dtype) THEN Fail("dtype")
    ELSE LET shp == <<t.shape[1], t.shape[2], size[1], size[2]>>
         IN  Ok(Build(shp, t.dtype,
                      [idx \in Coords(shp) |-> At(t, <<idx[1], idx[2], 0, 0>>)]))

\* torch::upsample_bilinear2d(input (N,C,H,W), output_size, align_corners).
upsample_bilinear2d(t, size, align) ==
    IF Len(size) # 2 THEN Fail("output_size_len")
    ELSE IF Dim(t) # 4 THEN Fail("input_rank")
    ELSE IF ~(t.shape[3] > 0 /\ t.shape[4] > 0 /\ size[1] > 0 /\ size[2] > 0)
         THEN Fail("size_nonpositive")
    ELSE IF ~IsFloating(t.dtype) THEN Fail("dtype")
    ELSE LET H  == t.shape[3]
             W  == t.shape[4]
             sh == PixelScale(H, size[1], align)
             sw == PixelScale(W, size[2], align)
             Px(idx) ==
                 LET hr  == SourceIndex(sh, idx[3], align)
                     wr  == SourceIndex(sw, idx[4], align)
                     h1  == hr.n \div hr.d
                     w1  == wr.n \div wr.d
                     h1p == IF h1 < H - 1 THEN 1 ELSE 0
                     w1p == IF w1 < W - 1 THEN 1 ELSE 0
                     lh  == AddQ(hr, Int2Q(-h1))
                     lw  == AddQ(wr, Int2Q(-w1))
                     V(a, b) == At(t, <<idx[1], idx[2], a, b>>)
                 IN  Bilerp(V(h1, w1), V(h1, w1 + w1p),
                            V(h1 + h1p, w1), V(h1 + h1p, w1 + w1p), lh, lw)
             shp == <<t.shape[1], t.shape[2], size[1], size[2]>>
         IN  Ok(Build(shp, t.dtype, [idx \in Coords(shp) |-> Px(idx)]))

(* ------------------- image transforms (functional.cc) ----------------- *)

\* Variant of resizeResult: the leading axis is squeezed whatever the rank.
resizeResultSqueezeAlways(t, size, align) ==
    LET dim  == Dim(t)
        temp == IF dim = 3 THEN unsqueeze(t, 0) ELSE t
    IN  IF ~permuteOk(temp, <<0, 3, 1, 2>>) THEN Fail("permute")
        ELSE LET up == upsample_bilinear2d(permute(temp, <<0, 3, 1, 2>>),
                                           size, align)
             IN  IF up.err # "none" THEN up
                 ELSE Ok(squeeze(permute(up.t, <<0, 2, 3, 1>>), 0))

\* resize: the value computed between reading the handle and wrapping the result.
resizeResult(t, size, align) ==
    LET dim  == Dim(t)
        temp == IF dim = 3 THEN unsqueeze(t, 0) ELSE t
    IN  IF ~permuteOk(temp, <<0, 3, 1, 2>>) THEN Fail("permute")
        ELSE LET up == upsample_bilinear2d(permute(temp, <<0, 3, 1, 2>>),
                                           size, align)
             IN  IF up.err # "none" THEN up
                 ELSE LET result == permute(up.t, <<0, 2, 3, 1>>)
                      IN  Ok(IF dim = 3 THEN squeeze(result, 0) ELSE result)

\* Variant of normalizeResult: the vectors are laid along the last axis.
normalizeResultChannelLast(t, mean, std) ==
    LET shp         == IF Dim(t) = 4 THEN <<1, 1, 1, 3>> ELSE <<1, 1, 3>>
        mean_tensor == from_blob(mean, shp)
        std_tensor  == from_blob(std, shp)
        diff        == sub_tensor(t, mean_tensor)
    IN  IF diff.err # "none" THEN diff ELSE div_tensor(diff.t, std_tensor)

\* Variant of normalizeResult: a channel axis whose size is not 3 is rejected.
normalizeResultChecked(t, mean, std) ==
    LET m3          == from_blob(mean, <<3, 1, 1>>)
        s3          == from_blob(std, <<3, 1, 1>>)
        mean_tensor == IF Dim(t) = 4 THEN reshape(m3, <<1, 3, 1, 1>>) ELSE m3
        std_tensor  == IF Dim(t) = 4 THEN reshape(s3, <<1, 3, 1, 1>>) ELSE s3
        diff        == sub_tensor(t, mean_tensor)
    IN  IF Dim(t) >= 3 /\ t.shape[Dim(t) - 2] # 3 THEN Fail("broadcast")
        ELSE IF diff.err # "none" THEN diff
        ELSE div_tensor(diff.t, std_tensor)

\* normalize: mean and std are viewed as (3,1,1), or (1,3,1,1) for a rank-4
\* input, and broadcast against the input by sub and div.
normalizeResult(t, mean, std) ==
    LET m3          == from_blob(mean, <<3, 1, 1>>)
        s3          == from_blob(std, <<3, 1, 1>>)
        mean_tensor == IF Dim(t) = 4 THEN reshape(m3, <<1, 3, 1, 1>>) ELSE m3
        std_tensor  == IF Dim(t) = 4 THEN reshape(s3, <<1, 3, 1, 1>>) ELSE s3
        diff        == sub_tensor(t, mean_tensor)
    IN  IF diff.err # "none" THEN diff ELSE div_tensor(diff.t, std_tensor)

\* Variant of toTensorResult: the axes are rotated the other way.
toTensorResultWrongPermute(t) ==
    LET dim  == Dim(t)
        temp == IF dim = 3 THEN unsqueeze(t, 0) ELSE t
        q    == div_scalar(temp, Int2Q(255)).t
    IN  IF ~permuteOk(q, <<0, 2, 3, 1>>) THEN Fail("permute")
        ELSE LET p == permute(q, <<0, 2, 3, 1>>)
             IN  Ok(IF dim = 3 THEN squeeze(p, 0) ELSE p)

\* toTensor: divide by 255.0, then move the last axis behind the batch axis.
toTensorResult(t) ==
    LET dim  == Dim(t)
        temp == IF dim = 3 THEN unsqueeze(t, 0) ELSE t
        q    == div_scalar(temp, Int2Q(255)).t
    IN  IF ~permuteOk(q, <<0, 3, 1, 2>>) THEN Fail("permute")
        ELSE LET p == permute(q, <<0, 3, 1, 2>>)
             IN  Ok(IF dim = 3 THEN squeeze(p, 0) ELSE p)

(* ------------------------------ the state ----------------------------- *)

\* Arguments of a call; the fields a method does not take keep these values.
NoArgs ==
    [scalar |-> Int2Q(0), inplace |-> FALSE, size |-> <<>>, align |-> FALSE,
     mean |-> <<>>, std |-> <<>>, dim |-> 0, dtype |-> "none"]

\* No method here catches what the library throws: an error leaves the native
\* frame uncaught and the caller gets no further.  Otherwise the caller makes
\* calls while fewer than MaxHandles tensors are live, on the live handles.
Handles ==
    IF last.err = "none" /\ Len(heap) < MaxHandles THEN DOMAIN heap ELSE {}

\* utils::GetPointerFromJHandle: the tensor a handle refers to.
GetPointerFromJHandle(h) == heap[h]

\* new torch::Tensor(...) wrapped by utils::CreatePointer: the result gets a
\* handle no live tensor has; the tensors behind the other handles are kept.
CreatePointer(op, h, args, t) ==
    /\ heap' = Append(heap, t)
    /\ last' = [op |-> op, h |-> h, args |-> args,
                ret |-> Len(heap) + 1, err |-> "none"]

\* An error raised by the library leaves the method without a result.
Throw(op, h, args, e) ==
    /\ heap' = heap
    /\ last' = [op |-> op, h |-> h, args |-> args, ret |-> 0, err |-> e]

\* Variant of Return: the outcome is written through the input handle, which
\* is handed back, instead of being wrapped in a new one.
ReturnThroughInput(op, h, args, r) ==
    IF r.err = "none"
    THEN /\ heap' = [heap EXCEPT ![h] = r.t]
         /\ last' = [op |-> op, h |-> h, args |-> args, ret |-> h, err |-> "none"]
    ELSE Throw(op, h, args, r.err)

\* A method that wraps the outcome r of its library calls.
Return(op, h, args, r) ==
    IF r.err = "none" THEN CreatePointer(op, h, args, r.t)
    ELSE Throw(op, h, args, r.err)

(* -------------------- pointwise ops (tensor_pointwise.cc) ------------- *)

\* jdouble arguments the caller passes.
Scalars == {Int2Q(0), Q(-5, 2)}

torchSub ==
    \E h \in Handles, s \in Scalars :
        Return("sub", h, [NoArgs EXCEPT !.scalar = s],
               sub_scalar(GetPointerFromJHandle(h), s))

torchDiv ==
    \E h \in Handles, s \in Scalars :
        Return("div", h, [NoArgs EXCEPT !.scalar = s],
               div_scalar(GetPointerFromJHandle(h), s))

torchAbs ==
    \E h \in Handles :
        Return("abs", h, NoArgs, unary("abs", GetPointerFromJHandle(h)))

torchFloor ==
    \E h \in Handles :
        Return("floor", h, NoArgs, unary("floor", GetPointerFromJHandle(h)))

torchCeil ==
    \E h \in Handles :
        Return("ceil", h, NoArgs, unary("ceil", GetPointerFromJHandle(h)))

torchRound ==
    \E h \in Handles :
        Return("round", h, NoArgs, unary("round", GetPointerFromJHandle(h)))

torchTrunc ==
    \E h \in Handles :
        Return("trunc", h, NoArgs, unary("trunc", GetPointerFromJHandle(h)))

torchExp ==
    \E h \in Handles :
        Return("exp", h, NoArgs, unary("exp", GetPointerFromJHandle(h)))

torchLog ==
    \E h \in Handles :
        Return("log", h, NoArgs, unary("log", GetPointerFromJHandle(h)))

torchLog10 ==
    \E h \in Handles :
        Return("log10", h, NoArgs, unary("log10", GetPointerFromJHandle(h)))

torchLog2 ==
    \E h \in Handles :
        Return("log2", h, NoArgs, unary("log2", GetPointerFromJHandle(h)))

torchSin ==
    \E h \in Handles :
        Return("sin", h, NoArgs, unary("sin", GetPointerFromJHandle(h)))

torchCos ==
    \E h \in Handles :
        Return("cos", h, NoArgs, unary("cos", GetPointerFromJHandle(h)))

torchTan ==
    \E h \in Handles :
        Return("tan", h, NoArgs, unary("tan", GetPointerFromJHandle(h)))

torchASin ==
    \E h \in Handles :
        Return("asin", h, NoArgs, unary("asin", GetPointerFromJHandle(h)))

torchAcos ==
    \E h \in Handles :
        Return("acos", h, NoArgs, unary("acos", GetPointerFromJHandle(h)))

torchAtan ==
    \E h \in Handles :
        Return("atan", h, NoArgs, unary("atan", GetPointerFromJHandle(h)))

torchSqrt ==
    \E h \in Handles :
        Return("sqrt", h, NoArgs, unary("sqrt", GetPointerFromJHandle(h)))

torchSinh ==
    \E h \in Handles :
        Return("sinh", h, NoArgs, unary("sinh", GetPointerFromJHandle(h)))

torchCosh ==
    \E h \in Handles :
        Return("cosh", h, NoArgs, unary("cosh", GetPointerFromJHandle(h)))

torchTanh ==
    \E h \in Handles :
        Return("tanh", h, NoArgs, unary("tanh", GetPointerFromJHandle(h)))

torchAll ==
    \E h \in Handles :
        Return("all", h, NoArgs, Ok(all(GetPointerFromJHandle(h))))

torchAny ==
    \E h \in Handles :
        Return("any", h, NoArgs, Ok(any(GetPointerFromJHandle(h))))

\* Variant of noneResult: the negation of all instead of any.
noneResultOfAll(t) == logical_not(all(t))

\* tensor_ptr->any().logical_not()
noneResult(t) == logical_not(any(t))

torchNone ==
    \E h \in Handles :
        Return("none", h, NoArgs, Ok(noneResult(GetPointerFromJHandle(h))))

\* Variant of NegInplace: the negation is allocated as a new tensor.
NegInplaceCopy(h) ==
    Return("neg", h, [NoArgs EXCEPT !.inplace = TRUE],
           neg(GetPointerFromJHandle(h)))

\* tensor_ptr->neg_(); return jhandle: the tensor behind h is overwritten and
\* h itself is returned.
NegInplace(h) ==
    LET r    == neg(GetPointerFromJHandle(h))
        args == [NoArgs EXCEPT !.inplace = TRUE]
    IN  IF r.err # "none" THEN Throw("neg", h, args, r.err)
        ELSE /\ heap' = [heap EXCEPT ![h] = r.t]
             /\ last' = [op |-> "neg", h |-> h, args |-> args,
                         ret |-> h, err |-> "none"]

torchNeg ==
    \E h \in Handles, inplace \in BOOLEAN :
        IF inplace THEN NegInplace(h)
        ELSE Return("neg", h, NoArgs, neg(GetPointerFromJHandle(h)))

(* ------------------------- functional.cc methods ---------------------- *)

SoftmaxDims == {0, 2}

SoftmaxDTypes == {"float32", "int32"}

torchSoftmax ==
    \E h \in Handles, d \in SoftmaxDims, dt \in SoftmaxDTypes :
        Return("softmax", h, [NoArgs EXCEPT !.dim = d, !.dtype = dt],
               softmax(GetPointerFromJHandle(h), d, dt))

\* jlongArray target sizes the caller passes, well-formed and not.
Sizes == {<<1, 1>>, <<2, 3>>, <<3>>, <<2, 0>>, <<1, 2, 2>>}

resize ==
    \E h \in Handles, size \in Sizes, align \in BOOLEAN :
        Return("resize", h, [NoArgs EXCEPT !.size = size, !.align = align],
               resizeResult(GetPointerFromJHandle(h), size, align))

\* jfloatArray mean and std the caller passes (three floats each).
Means == {<<Int2Q(0), Int2Q(0), Int2Q(0)>>, <<Int2Q(1), Int2Q(2), Int2Q(3)>>}

Stds == {<<Int2Q(1), Int2Q(1), Int2Q(1)>>, <<Int2Q(2), Int2Q(4), Q(1, 2)>>,
         <<Int2Q(1), Int2Q(0), Int2Q(2)>>}

normalize ==
    \E h \in Handles, mean \in Means, std \in Stds :
        Return("normalize", h, [NoArgs EXCEPT !.mean = mean, !.std = std],
               normalizeResult(GetPointerFromJHandle(h), mean, std))

toTensor ==
    \E h \in Handles :
        Return("toTensor", h, NoArgs, toTensorResult(GetPointerFromJHandle(h)))

(* --------------------------- initial tensors -------------------------- *)

Ints(s) == [i \in 1..Len(s) |-> Int2Q(s[i])]

\* Tensors the caller may hold before the first call.
InitTensors ==
    { Tensor(<<3, 1, 3>>, "float32", Ints(<<1, 2, 3, 4, 5, 6, 7, 8, 9>>)),
      Tensor(<<1, 2, 3>>, "float32", Ints(<<0, 255, 51, 102, 7, 9>>)),
      Tensor(<<1, 3, 1, 2>>, "float32", Ints(<<1, 2, 3, 4, 5, 6>>)),
      Tensor(<<2, 2, 1, 1>>, "float32", Ints(<<1, 2, 3, 4>>)),
      Tensor(<<1, 1, 1, 2>>, "int32", Ints(<<0, 255>>)),
      Tensor(<<2, 2, 1>>, "int32", Ints(<<0, 255, -3, 7>>)),
      Tensor(<<2, 2>>, "float32", <<Q(1, 2), Q(-3, 2), Q(5, 2), Q(0, 1)>>),
      Tensor(<<0>>, "float32", <<>>),
      Tensor(<<1, 1, 1, 1, 1>>, "float32", Ints(<<0>>)) }

Init ==
    /\ \E t \in InitTensors : heap = <<t>>
    /\ last = [op |-> "init", h |-> 0, args |-> NoArgs, ret |-> 1, err |-> "none"]

Next ==
    \/ torchSub \/ torchDiv
    \/ torchAbs \/ torchFloor \/ torchCeil \/ torchRound \/ torchTrunc
    \/ torchExp \/ torchLog \/ torchLog10 \/ torchLog2
    \/ torchSin \/ torchCos \/ torchTan
    \/ torchASin \/ torchAcos \/ torchAtan
    \/ torchSqrt \/ torchSinh \/ torchCosh \/ torchTanh
    \/ torchAll \/ torchAny \/ torchNone
    \/ torchNeg
    \/ torchSoftmax \/ resize \/ normalize \/ toTensor

Spec == Init /\ [][Next]_vars

(* ------------------------- vocabulary of the claims ------------------- *)

\* The library checks that report a rank, axis or size mismatch.
ShapeErrors ==
    {"permute", "output_size_len", "input_rank", "size_nonpositive",
     "broadcast", "dim_range"}

\* The name a check of a zero divisor would report.
DivideByZeroErrors == {"div_by_zero"}

Succeeded(op) == last.op = op /\ last.err = "none"

\* The input and the result of the last call.
In == heap[last.h]
Out == heap[last.ret]

\* r is the quotient a/b of finite numbers, b nonzero (by cross-multiplication).
IsQuotient(r, a, b) ==
    IsFinite(r) /\ r.n * a.d * b.n = a.n * b.d * r.d

\* r is what IEEE gives for a/0 with a finite: an infinity of a's sign, or NaN.
IsQuotientByZero(r, a) ==
    \/ a.n > 0 /\ r = PosInf
    \/ a.n < 0 /\ r = NegInf
    \/ a.n = 0 /\ IsNaN(r)

\* r is a/b for finite a and b.
IsDiv(r, a, b) == IF b.n = 0 THEN IsQuotientByZero(r, a) ELSE IsQuotient(r, a, b)

\* r is (x - m) / s for finite x, m and s.
IsNormalized(r, x, m, s) ==
    \E dn \in {x.n * m.d - m.n * x.d} :
        LET dd == x.d * m.d
        IN  IF s.n = 0
            THEN \/ dn > 0 /\ r = PosInf
                 \/ dn < 0 /\ r = NegInf
                 \/ dn = 0 /\ IsNaN(r)
            ELSE IsFinite(r) /\ r.n * dd * s.n = dn * s.d * r.d

(* -------------------------------- claims ------------------------------ *)

\* The step just taken is a completed in-place negation.
NegInplaceStepped ==
    last'.op = "neg" /\ last'.args.inplace /\ last'.err = "none"

\* b is a with every element negated.
IsNegationOf(b, a) ==
    /\ b.shape = a.shape
    /\ b.dtype = a.dtype
    /\ Len(b.data) = Len(a.data)
    /\ \A i \in 1..Len(a.data) :
          IF IsFinite(a.data[i])
          THEN b.data[i].d = a.data[i].d /\ b.data[i].n + a.data[i].n = 0
               /\ IsExact(b.data[i])
          ELSE b.data[i] = NegV(a.data[i])

\* C1: a completed call of neg with inplace = true returns the handle it was
\* given, allocates nothing, and the tensor behind that handle then holds the
\* negation of every element it held before, so every holder of the handle
\* observes the negated values.
C1_NegInplaceSameHandle ==
    [][NegInplaceStepped =>
          /\ last'.ret = last'.h
          /\ DOMAIN heap' = DOMAIN heap
          /\ IsNegationOf(heap'[last'.h], heap[last'.h])]_vars

\* C1 witness: an in-place negation has returned its own handle and the tensor
\* behind it now holds a negative element.
C1_Witness ==
    /\ Succeeded("neg") /\ last.args.inplace /\ last.ret = last.h
    /\ \E i \in 1..Len(In.data) : IsFinite(In.data[i]) /\ In.data[i].n < 0

\* C2: in every step, the tensor behind every live handle keeps its shape,
\* dtype and elements unless the step is a completed in-place negation of that
\* very handle; and every other completed call returns a handle that was not
\* live before, distinct from its input handle.
C2_OnlyNegInplaceMutates ==
    [][/\ \A k \in DOMAIN heap :
             (~(NegInplaceStepped /\ last'.h = k)) =>
                 (k \in DOMAIN heap' /\ heap'[k] = heap[k])
       /\ (last'.err = "none" /\ ~NegInplaceStepped) =>
             /\ last'.ret \notin DOMAIN heap
             /\ last'.ret \in DOMAIN heap'
             /\ last'.ret # last'.h]_vars

\* C2 witness: a call other than in-place neg has returned a second handle and
\* its input still holds a nonzero element.
C2_Witness ==
    /\ last.err = "none" /\ last.op \notin {"init", "neg"}
    /\ last.ret # last.h /\ last.ret \in DOMAIN heap /\ last.h \in DOMAIN heap
    /\ \E i \in 1..Len(In.data) : Truthy(In.data[i])

\* C3: a completed resize keeps the rank and the layout of its input: (H,W,C)
\* becomes (h,w,C), and (N,H,W,C) becomes (N,h,w,C) with no axis removed, also
\* when N = 1.
C3_ResizeShape ==
    Succeeded("resize") =>
        LET h == last.args.size[1]
            w == last.args.size[2]
        IN  /\ Dim(In) \in {3, 4}
            /\ Dim(In) = 3 => Out.shape = <<h, w, In.shape[3]>>
            /\ Dim(In) = 4 => Out.shape = <<In.shape[1], h, w, In.shape[4]>>
            /\ Len(Out.data) = Prod(Out.shape)

\* C3 witness: a rank-4 input with N = 1 has been resized and the result is
\* still rank 4.
C3_Witness ==
    /\ Succeeded("resize") /\ Dim(In) = 4 /\ In.shape[1] = 1
    /\ Dim(Out) = 4 /\ Out.shape[1] = 1 /\ Out.shape[2] # In.shape[2]

\* r is x / 255, for finite x; otherwise what the division operator gives.
IsOver255(r, x) ==
    IF IsFinite(x) THEN IsQuotient(r, x, Int2Q(255)) ELSE r = DivV(x, Int2Q(255))

\* C4: a completed toTensor maps (H,W,C) to (C,H,W) with
\* result[c][h][w] = T[h][w][c] / 255, and (N,H,W,C) to (N,C,H,W) with
\* result[n][c][h][w] = T[n][h][w][c] / 255.
C4_ToTensor ==
    Succeeded("toTensor") =>
        /\ Dim(In) \in {3, 4}
        /\ Dim(In) = 3 =>
              /\ Out.shape = <<In.shape[3], In.shape[1], In.shape[2]>>
              /\ \A i \in Coords(Out.shape) :
                    IsOver255(At(Out, i), At(In, <<i[2], i[3], i[1]>>))
        /\ Dim(In) = 4 =>
              /\ Out.shape = <<In.shape[1], In.shape[4], In.shape[2], In.shape[3]>>
              /\ \A i \in Coords(Out.shape) :
                    IsOver255(At(Out, i), At(In, <<i[1], i[3], i[4], i[2]>>))

\* C4 witness: toTensor has turned a rank-3 image holding the pixel 255 into a
\* tensor holding 1, with the channel axis moved to the front.
C4_Witness ==
    /\ Succeeded("toTensor") /\ Dim(In) = 3
    /\ In.shape[3] # In.shape[1]
    /\ \E i \in 1..Len(In.data) : In.data[i] = Int2Q(255)
    /\ \E i \in 1..Len(Out.data) : Out.data[i] = Int2Q(1)

\* The channel axis (1-based) as the text has it: the last axis of a rank-3
\* tensor, axis 1 of a rank-4 tensor.
ClaimedChannelAxis(t) == IF Dim(t) = 4 THEN 2 ELSE Dim(t)

\* The axis (1-based) the mean and std vectors run along: axis 0 of a rank-3
\* tensor, axis 1 of a rank-4 tensor.
ChannelAxis(t) == IF Dim(t) = 4 THEN 2 ELSE 1

\* r is (x - m) / s; by cross-multiplication when x is finite.
IsNorm(r, x, m, s) ==
    IF IsFinite(x) THEN IsNormalized(r, x, m, s) ELSE r = DivV(SubV(x, m), s)

\* Every element of the result, at channel index c on axis ax, is
\* (x - mean[c]) / std[c] for the element x of the input at the same place.
NormalizedAlong(ax) ==
    \A i \in Coords(Out.shape) :
        IsNorm(At(Out, i), At(In, i),
               last.args.mean[i[ax] + 1], last.args.std[i[ax] + 1])

\* C5 as stated: the channel axis is the last axis of a rank-3 tensor and
\* axis 1 of a rank-4 tensor; the result has the shape of T and each element
\* with channel index c is (x - mean[c]) / std[c].
C5_Original ==
    (Succeeded("normalize") /\ Dim(In) \in {3, 4}) =>
        /\ Out.shape = In.shape
        /\ NormalizedAlong(ClaimedChannelAxis(In))

\* C5 amended: the channel axis is axis 0 of a rank-3 tensor and axis 1 of a
\* rank-4 tensor; when that axis has size 3, the result has the shape of T and
\* each element with channel index c on it is (x - mean[c]) / std[c].
C5_NormalizeChannelAxis ==
    (Succeeded("normalize") /\ Dim(In) \in {3, 4}
        /\ In.shape[ChannelAxis(In)] = 3) =>
        /\ Out.shape = In.shape
        /\ NormalizedAlong(ChannelAxis(In))

\* C5 witness: a rank-3 tensor whose first and last axes both have size 3 has
\* been normalized with distinct per-channel means and stds.
C5_Witness ==
    /\ Succeeded("normalize") /\ Dim(In) = 3
    /\ In.shape[1] = 3 /\ In.shape[3] = 3
    /\ last.args.mean[1] # last.args.mean[2]
    /\ last.args.std[1] # last.args.std[3]
    /\ Out.shape = In.shape

HasZeroStd == \E k \in 1..Len(last.args.std) : IsZero(last.args.std[k])

\* C6 as stated, on the inputs that hold an element to divide: normalize with
\* a zero std entry fails with DivideByZeroError and returns no result tensor.
C6_Original ==
    (last.op = "normalize" /\ HasZeroStd /\ In.data # <<>>) =>
        (last.err \in DivideByZeroErrors /\ last.ret = 0)

\* C6 amended: normalize with a zero std entry raises no division error.  When
\* the shapes broadcast it returns a tensor in which every element of a channel
\* whose std is zero is +inf, -inf or NaN (for finite inputs); otherwise it
\* fails as it would for any std: a boolean input, or shapes that do not
\* broadcast.
C6_NormalizeZeroStd ==
    (last.op = "normalize" /\ HasZeroStd) =>
        /\ last.err \notin DivideByZeroErrors
        /\ last.err # "none" =>
              /\ last.ret = 0
              /\ last.err = (IF In.dtype = "bool" THEN "bool_sub" ELSE "broadcast")
        /\ (last.err = "none"
              /\ \A i \in 1..Len(In.data) : IsFinite(In.data[i])) =>
              \A i \in Coords(Out.shape) :
                  IsZero(last.args.std[i[Dim(Out) - 2] + 1]) =>
                      (IsInf(At(Out, i)) \/ IsNaN(At(Out, i)))

\* C6 witness: a normalize call with a zero std entry has returned a tensor
\* that holds an infinity.
C6_Witness ==
    /\ Succeeded("normalize") /\ HasZeroStd
    /\ \E i \in 1..Len(Out.data) : IsInf(Out.data[i])
    /\ \E i \in 1..Len(Out.data) : IsFinite(Out.data[i])

\* C7 as stated: normalize fails with ShapeError, producing no result, whenever
\* the channel axis does not have size 3, size 1 included.
C7_Original ==
    (last.op = "normalize" /\ Dim(In) \in {3, 4}
        /\ In.shape[ClaimedChannelAxis(In)] # 3) =>
        (last.err \in ShapeErrors /\ last.ret = 0)

\* C7 amended: on a non-boolean tensor of rank 3 or 4, normalize fails with
\* the broadcasting shape error, producing no result, whenever the channel
\* axis (axis 0 for rank 3, axis 1 for rank 4) has a size other than 1 or 3;
\* a channel axis of size 1 is broadcast: the call returns a tensor whose
\* channel axis has size 3, channel c holding (x - mean[c]) / std[c].
C7_NormalizeChannelSize ==
    (last.op = "normalize" /\ Dim(In) \in {3, 4} /\ In.dtype # "bool") =>
        LET ax == ChannelAxis(In)
        IN  /\ In.shape[ax] \notin {1, 3} =>
                  (last.err = "broadcast" /\ last.ret = 0)
            /\ In.shape[ax] = 1 =>
                  /\ last.err = "none"
                  /\ Out.shape = [In.shape EXCEPT ![ax] = 3]
                  /\ \A i \in Coords(Out.shape) :
                        IsNorm(At(Out, i), At(In, [i EXCEPT ![ax] = 0]),
                               last.args.mean[i[ax] + 1],
                               last.args.std[i[ax] + 1])

\* C7 witness: a tensor whose channel axis has size 1 has been normalized into
\* one whose channel axis has size 3.
C7_Witness ==
    /\ Succeeded("normalize") /\ Dim(In) \in {3, 4}
    /\ In.shape[ChannelAxis(In)] = 1
    /\ Out.shape[ChannelAxis(In)] = 3
    /\ Len(Out.data) = 3 * Len(In.data)

\* The result of the last call has the shape of its input and every element
\* is the input's divided by the scalar.
DividedByScalar ==
    /\ Succeeded("div")
    /\ last.ret # last.h
    /\ Out.shape = In.shape
    /\ Len(Out.data) = Len(In.data)
    /\ \A i \in 1..Len(In.data) :
          IsFinite(In.data[i]) => IsDiv(Out.data[i], In.data[i], last.args.scalar)

\* C8 as stated: div(T, 0) on an integer T fails with DivideByZeroError and
\* produces no result; div(T, s) with s nonzero returns a new tensor of T's
\* shape holding T's elements divided by s.
C8_Original ==
    last.op = "div" =>
        IF IsZero(last.args.scalar)
        THEN In.dtype = "int32" =>
                 (last.err \in DivideByZeroErrors /\ last.ret = 0)
        ELSE DividedByScalar

\* C8 amended: div(T, 0) on an integer T raises no error: the scalar is a
\* double, the division is made in floating point, and the call returns a new
\* floating tensor of T's shape holding the IEEE quotients by zero (+inf, -inf,
\* NaN for 0/0); div(T, s) with s nonzero returns a new tensor of T's shape
\* holding T's elements divided by s.
C8_DivScalar ==
    last.op = "div" =>
        /\ DividedByScalar
        /\ In.dtype = "int32" => Out.dtype = "float32"

\* C8 witness: an integer tensor has been divided by zero and the result holds
\* +inf, -inf and NaN.
C8_Witness ==
    /\ Succeeded("div") /\ IsZero(last.args.scalar) /\ In.dtype = "int32"
    /\ \E i \in 1..Len(Out.data) : Out.data[i] = PosInf
    /\ \E i \in 1..Len(Out.data) : Out.data[i] = NegInf
    /\ \E i \in 1..Len(Out.data) : IsNaN(Out.data[i])

\* An element that is zero.
ZeroElement(v) == v.f = <<>> /\ v.d > 0 /\ v.n = 0

\* The result of the last call is the rank-0 boolean tensor holding b.
ReturnsBool(b) ==
    /\ last.err = "none" /\ last.ret # last.h
    /\ Out.shape = <<>> /\ Out.dtype = "bool"
    /\ Out.data = <<IF b THEN Int2Q(1) ELSE Int2Q(0)>>

\* C9: all(T) is true iff every element of T is nonzero, any(T) iff some
\* element is nonzero, and none(T) is the negation of any(T); on the empty
\* tensor all is true, any false and none true; each is a rank-0 boolean.
C9_Reductions ==
    /\ last.op = "all" =>
          ReturnsBool(\A i \in 1..Len(In.data) : ~ZeroElement(In.data[i]))
    /\ last.op = "any" =>
          ReturnsBool(\E i \in 1..Len(In.data) : ~ZeroElement(In.data[i]))
    /\ last.op = "none" =>
          ReturnsBool(~\E i \in 1..Len(In.data) : ~ZeroElement(In.data[i]))
    /\ (last.op \in {"all", "none"} /\ In.data = <<>>) => Out.data = <<Int2Q(1)>>
    /\ (last.op = "any" /\ In.data = <<>>) => Out.data = <<Int2Q(0)>>

\* C9 witness: none has returned true for the empty tensor.
C9_Witness ==
    /\ Succeeded("none") /\ In.data = <<>> /\ In.shape = <<0>>
    /\ Out.data = <<Int2Q(1)>>

\* The rank of t or the target size is one resize must reject.
BadResizeArgs(t, size) ==
    \/ Dim(t) \notin {3, 4}
    \/ Len(size) # 2
    \/ \E k \in 1..Len(size) : size[k] <= 0

\* C10: a resize whose input has a rank other than 3 or 4, or whose target
\* size is not exactly 2 positive entries, fails with a shape error, returns
\* no result tensor and leaves every tensor as it was.
C10_ResizeRejects ==
    [][(last'.op = "resize" /\ last'.h \in DOMAIN heap
          /\ BadResizeArgs(heap[last'.h], last'.args.size)) =>
          /\ last'.err \in ShapeErrors
          /\ last'.ret = 0
          /\ heap' = heap]_vars

\* C10 witness: a resize of a rank-3 or rank-4 floating tensor to a size with
\* a zero entry has been rejected.
C10_Witness ==
    /\ last.op = "resize" /\ last.err = "size_nonpositive" /\ last.ret = 0
    /\ Dim(In) \in {3, 4} /\ In.dtype = "float32"
    /\ Len(last.args.size) = 2

=============================================================================
